---- MODULE Spec2Model ----
(***************************************************************************)
(* Probabilistic convergence on a 2D honeycomb network                     *)
(* (src/probabilistic_convergence.py): the simulation loop, its subgroup    *)
(* search, and the evolution of the decision distributions.                *)
(*                                                                         *)
(* Probabilities are exact rationals [n |-> numerator, d |-> denominator]  *)
(* in lowest terms; the program computes the same expressions in floating  *)
(* point.  Node and decision indices start at 0 as in the program, and a   *)
(* Python list is a sequence (list index k is sequence position k+1).      *)
(***************************************************************************)
EXTENDS Integers, Sequences, FiniteSets, TLC

\* ------------------------------------------------------------- bounds
\* number of nodes of the network (the program's default is 30)
net_size == 3
\* number of decisions each node chooses from (the program's default is 30)
deci_num == 2
\* node positions of the network file lie in (0..GridSize) x (0..GridSize)
GridSize == 2
\* simulation rounds followed by the model
MaxRounds == 2
\* events returned by one call of pygame.event.get()
MaxEvents == 2
\* a further round is followed only from distributions whose denominators
\* are at most MaxDen (keeps the exact arithmetic within machine integers)
MaxDen == 10

Nodes == 0 .. (net_size - 1)
Decisions == 0 .. (deci_num - 1)

VARIABLES
    connection_lists,  \* per node, the list of its connected nodes (ascending)
    deci_dist,         \* per node, its decision distribution
    deci_dist_t,       \* the copy of deci_dist taken before the evolution
    deci_domi,         \* per node, its dominant decision
    subgroups,         \* list of subgroups, each a list of nodes
    subsizes,          \* per node, the size of the subgroup it is in
    n_pool,            \* nodes not yet assigned to a subgroup
    subgroup_temp,     \* the subgroup being searched
    p_members,         \* potential members of the subgroup being searched
    p_index,           \* scan index into p_members (from 0)
    current_domi,      \* dominant decision of the subgroup being searched
    host,              \* the node the evolution loop is at (the program's i)
    dist_diff_max,     \* largest distribution difference in the host's block
    sim_pause,         \* simulation pause flag
    sim_exit,          \* simulation exit flag
    iter_count,        \* number of completed iterations
    dz,                \* per node, the bar height of the unipolarity graph
    pc                 \* position in the simulation cycle

vars == <<connection_lists, deci_dist, deci_dist_t, deci_domi, subgroups,
          subsizes, n_pool, subgroup_temp, p_members, p_index, current_domi,
          host, dist_diff_max, sim_pause, sim_exit, iter_count, dz, pc>>

\* ------------------------------------------------- rational arithmetic
RECURSIVE GCD(_, _)
GCD(a, b) == IF b = 0 THEN a ELSE GCD(b, a % b)

Abs(x) == IF x < 0 THEN -x ELSE x

\* the rational n/d in lowest terms, d > 0
Rat(n, d) ==
    LET g == GCD(Abs(n), Abs(d))
        s == IF d < 0 THEN -1 ELSE 1
    IN  [n |-> s * (n \div g), d |-> s * (d \div g)]

Zero == [n |-> 0, d |-> 1]
One == [n |-> 1, d |-> 1]
\* the result of a division by a zero sum (numpy stores nan)
NaN == [n |-> 0, d |-> 0]

\* a sum, a product or a quotient with nan is nan
RAdd(a, b) ==
    IF a = NaN \/ b = NaN THEN NaN
    ELSE LET g == GCD(a.d, b.d)
         IN  Rat(a.n * (b.d \div g) + b.n * (a.d \div g), (a.d \div g) * b.d)

RNeg(a) == [n |-> -a.n, d |-> a.d]
RSub(a, b) == RAdd(a, RNeg(b))
RAbs(a) == [n |-> Abs(a.n), d |-> a.d]

RMul(a, b) ==
    IF a = NaN \/ b = NaN THEN NaN
    ELSE LET g1 == GCD(Abs(a.n), b.d)
             g2 == GCD(Abs(b.n), a.d)
         IN  Rat((a.n \div g1) * (b.n \div g2), (a.d \div g2) * (b.d \div g1))

RDiv(a, b) == IF a = NaN \/ b.n = 0 THEN NaN ELSE RMul(a, Rat(b.d, b.n))

\* a/b < c/d for naturals a, c and positive b, d, without forming a product
RECURSIVE FracLess(_, _, _, _)
FracLess(a, b, c, d) ==
    LET qa == a \div b
        qc == c \div d
        ra == a % b
        rc == c % d
    IN  IF qa # qc THEN qa < qc
        ELSE IF rc = 0 THEN FALSE
        ELSE IF ra = 0 THEN TRUE
        ELSE FracLess(d, rc, b, ra)

\* a comparison with nan is false
RLess(a, b) ==
    IF a = NaN \/ b = NaN THEN FALSE
    ELSE IF a.n < 0 /\ b.n >= 0 THEN TRUE
    ELSE IF a.n >= 0 /\ b.n < 0 THEN FALSE
    ELSE IF a.n >= 0 THEN FracLess(a.n, a.d, b.n, b.d)
    ELSE FracLess(-b.n, b.d, -a.n, a.d)

RLeq(a, b) == ~RLess(b, a)

\* sum over the decisions of row[k]  (np.sum of one distribution)
RECURSIVE SumUpTo(_, _)
SumUpTo(row, k) == IF k < 0 THEN Zero ELSE RAdd(SumUpTo(row, k - 1), row[k])

RowSum(row) == SumUpTo(row, deci_num - 1)

RowAdd(r1, r2) == [k \in Decisions |-> RAdd(r1[k], r2[k])]
RowScale(row, c) == [k \in Decisions |-> RMul(row[k], c)]

\* the row left as it is
NotNormalized(row) == row

\* row / np.sum(row)
Normalize(row) == LET sum_temp == RowSum(row)
                  IN  [k \in Decisions |-> RDiv(row[k], sum_temp)]

\* np.sum(abs(r1 - r2))
DistDiff(r1, r2) == RowSum([k \in Decisions |-> RAbs(RSub(r1[k], r2[k]))])

\* np.argmax of one distribution: the first index holding the maximum, and
\* the first index holding nan if there is one
ArgMax(row) ==
    IF \E k \in Decisions : row[k] = NaN
    THEN CHOOSE k \in Decisions :
             row[k] = NaN /\ \A j \in Decisions : j < k => row[j] # NaN
    ELSE CHOOSE k \in Decisions :
             /\ \A j \in Decisions : RLeq(row[j], row[k])
             /\ \A j \in Decisions : j < k => RLess(row[j], row[k])

\* ------------------------------------------------------------ lists
InList(x, list) == \E k \in 1 .. Len(list) : list[k] = x

\* list.remove(x): the list without the first occurrence of x
Remove(list, x) ==
    LET k == CHOOSE j \in 1 .. Len(list) :
                 list[j] = x /\ \A m \in 1 .. (j - 1) : list[m] # x
    IN  [m \in 1 .. (Len(list) - 1) |-> IF m < k THEN list[m] ELSE list[m + 1]]

\* range(n) as a list
RECURSIVE Range(_)
Range(n) == IF n = 0 THEN << >> ELSE Append(Range(n - 1), n - 1)

\* --------------------------------------------------------- topology
Cells == (0 .. GridSize) \X (0 .. GridSize)

\* whether two honeycomb positions are neighbours
Adjacent(p, q) ==
    LET diff_x == p[1] - q[1]
        diff_y == p[2] - q[2]
    IN  Abs(diff_x) + Abs(diff_y) = 1 \/ diff_x * diff_y = -1

\* the connection matrix with only the entries connections[i][j], i < j
ConnectionsUpper(nodes) ==
    [i \in Nodes |-> [j \in Nodes |->
        IF i < j /\ Adjacent(nodes[i], nodes[j]) THEN 1 ELSE 0]]
\* the connection matrix of node positions: the pairs i < j are tested, and
\* a pair of neighbours sets connections[i][j] and connections[j][i]
Connections(nodes) ==
    [i \in Nodes |-> [j \in Nodes |->
        IF \/ i < j /\ Adjacent(nodes[i], nodes[j])
           \/ j < i /\ Adjacent(nodes[j], nodes[i])
        THEN 1 ELSE 0]]

\* the list of j in 0..n-1, ascending, with connections[i][j] set
RECURSIVE ConnList(_, _)
ConnList(row, n) ==
    IF n = 0 THEN << >>
    ELSE IF row[n - 1] = 1 THEN Append(ConnList(row, n - 1), n - 1)
    ELSE ConnList(row, n - 1)

ConnectionLists(nodes) ==
    [i \in Nodes |-> ConnList(Connections(nodes)[i], net_size)]

Topologies == {ConnectionLists(nodes) : nodes \in [Nodes -> Cells]}

\* ------------------------------------------------ initial distributions
\* normalized rows the random initialisation is sampled at: the uniform
\* row, and for each decision a row peaked at it (9/10) and a row that is
\* certain of it
Uniform == [k \in Decisions |-> Rat(1, deci_num)]
Peak(c) == [k \in Decisions |->
               IF k = c THEN Rat(9, 10) ELSE Rat(1, 10 * (deci_num - 1))]
Certain(c) == [k \in Decisions |-> IF k = c THEN One ELSE Zero]

InitRows == {Uniform} \cup {Peak(c) : c \in Decisions}
                      \cup {Certain(c) : c \in Decisions}

Init ==
    /\ connection_lists \in Topologies
    /\ deci_dist \in [Nodes -> InitRows]
    /\ deci_dist_t = deci_dist
    /\ deci_domi = [i \in Nodes |-> ArgMax(deci_dist[i])]
    /\ subgroups = << >>
    /\ subsizes = [i \in Nodes |-> 0]
    /\ n_pool = << >>
    /\ subgroup_temp = << >>
    /\ p_members = << >>
    /\ p_index = 0
    /\ current_domi = 0
    /\ host = 0
    /\ dist_diff_max = Zero
    /\ sim_pause = TRUE
    /\ sim_exit = FALSE
    /\ iter_count = 0
    /\ dz = [i \in Nodes |-> Zero]
    /\ pc = "poll"

\* ------------------------------------------------------ event handling
EventKinds == {"QUIT", "KEYUP_SPACE", "KEYUP_ESCAPE", "KEYUP_Q", "OTHER"}

\* the event lists one call of pygame.event.get() may return
RECURSIVE EventLists(_)
EventLists(n) ==
    IF n = 0 THEN {<< >>}
    ELSE LET shorter == EventLists(n - 1)
         IN  shorter \cup {Append(l, e) : l \in shorter, e \in EventKinds}

\* the flags after one event, a SPACE key release leaving the pause flag
HandleEventNoToggle(flags, event) ==
    [pause |-> flags.pause,
     exit  |-> IF event \in {"QUIT", "KEYUP_ESCAPE", "KEYUP_Q"}
               THEN TRUE ELSE flags.exit]
\* the flags after one event
HandleEvent(flags, event) ==
    [pause |-> IF event = "KEYUP_SPACE" THEN ~flags.pause ELSE flags.pause,
     exit  |-> IF event \in {"QUIT", "KEYUP_ESCAPE", "KEYUP_Q"}
               THEN TRUE ELSE flags.exit]

\* the flags after the events of a list, in order
RECURSIVE HandleEvents(_, _)
HandleEvents(flags, events) ==
    IF events = << >> THEN flags
    ELSE HandleEvents(HandleEvent(flags, Head(events)), Tail(events))

\* the model follows a round only within its bounds
RoundInBounds ==
    /\ iter_count < MaxRounds
    /\ \A i \in Nodes : \A k \in Decisions : deci_dist[i][k].d <= MaxDen

\* top of the simulation cycle: process the events, skip the rest if paused
PollEvents(events) ==
    /\ pc = "poll"
    /\ LET flags == HandleEvents([pause |-> sim_pause, exit |-> sim_exit], events)
       IN  /\ sim_pause' = flags.pause
           /\ sim_exit' = flags.exit
           /\ IF flags.pause
              THEN pc' = IF flags.exit THEN "done" ELSE "poll"
              ELSE RoundInBounds /\ pc' = "domi"
    /\ UNCHANGED <<dz, connection_lists, deci_dist, deci_dist_t, deci_domi,
                   subgroups, subsizes, n_pool, subgroup_temp, p_members,
                   p_index, current_domi, host, dist_diff_max, iter_count>>

\* ------------------------------------------------- 1. dominant decisions
\* the dominant decisions left as they are
DominantDecisionsStale(dist) == deci_domi
DominantDecisions(dist) == [i \in Nodes |-> ArgMax(dist[i])]

\* the global pool of node indices not yet assigned to a subgroup
InitialPoolShort == Range(net_size - 1)
InitialPool == Range(net_size)

UpdateDomi ==
    /\ pc = "domi"
    /\ deci_domi' = DominantDecisions(deci_dist)
    /\ subgroups' = << >>
    /\ n_pool' = InitialPool
    /\ pc' = "pool"
    /\ UNCHANGED <<dz, connection_lists, deci_dist, deci_dist_t, subsizes,
                   subgroup_temp, p_members, p_index, current_domi, host,
                   dist_diff_max, sim_pause, sim_exit, iter_count>>

\* --------------------------------------------------------- 2. subgroups
\* start a new subgroup with the first node of the pool
StartSubgroup ==
    /\ pc = "pool"
    /\ Len(n_pool) # 0
    /\ LET first_member == n_pool[1]
       IN  /\ subgroup_temp' = <<first_member>>
           /\ n_pool' = Tail(n_pool)
           /\ p_members' = connection_lists[first_member]
           /\ p_index' = 0
           /\ current_domi' = deci_domi[first_member]
    /\ pc' = "scan"
    /\ UNCHANGED <<dz, connection_lists, deci_dist, deci_dist_t, deci_domi,
                   subgroups, subsizes, host, dist_diff_max, sim_pause,
                   sim_exit, iter_count>>

\* a neighbour of a new member tested against p_members only
QualifiesNotListed(member, members, subgroup, pool) == ~InList(member, members)
\* every neighbour of a new member taken as a potential member
QualifiesAlways(member, members, subgroup, pool) == TRUE
\* whether a neighbour of a new member qualifies as a potential member
Qualifies(member, members, subgroup, pool) ==
    /\ ~InList(member, members)
    /\ ~InList(member, subgroup)
    /\ InList(member, pool)

\* p_members after the loop over the first n neighbours of the new member
RECURSIVE AddPotential(_, _, _, _, _)
AddPotential(members, p_members_new, n, subgroup, pool) ==
    IF n = 0 THEN members
    ELSE LET before == AddPotential(members, p_members_new, n - 1, subgroup, pool)
             member == p_members_new[n]
         IN  IF Qualifies(member, before, subgroup, pool)
             THEN Append(before, member)
             ELSE before

\* whether a potential member shares the decision of the current subgroup
SharesDecisionAlways(member) == TRUE
SharesDecision(member) == deci_domi[member] = current_domi

\* the node under the scan index shares the subgroup's decision
AcceptMember ==
    /\ pc = "scan"
    /\ p_index < Len(p_members)
    /\ SharesDecision(p_members[p_index + 1])
    /\ LET new_member == p_members[p_index + 1]
           members == Remove(p_members, new_member)
       IN  IF ~InList(new_member, n_pool)
           THEN /\ pc' = "error_pool_remove"
                /\ p_members' = members
                /\ UNCHANGED <<n_pool, subgroup_temp>>
           ELSE LET pool == Remove(n_pool, new_member)
                    subgroup == Append(subgroup_temp, new_member)
                    p_members_new == connection_lists[new_member]
                IN  /\ n_pool' = pool
                    /\ subgroup_temp' = subgroup
                    /\ p_members' = AddPotential(members, p_members_new,
                                                 Len(p_members_new), subgroup, pool)
                    /\ pc' = "scan"
    /\ UNCHANGED <<dz, connection_lists, deci_dist, deci_dist_t, deci_domi,
                   subgroups, subsizes, p_index, current_domi, host,
                   dist_diff_max, sim_pause, sim_exit, iter_count>>

\* the node under the scan index is a boundary node: leave it, move on
SkipBoundary ==
    /\ pc = "scan"
    /\ p_index < Len(p_members)
    /\ ~SharesDecision(p_members[p_index + 1])
    /\ p_index' = p_index + 1
    /\ UNCHANGED <<dz, connection_lists, deci_dist, deci_dist_t, deci_domi,
                   subgroups, subsizes, n_pool, subgroup_temp, p_members,
                   current_domi, host, dist_diff_max, sim_pause, sim_exit,
                   iter_count, pc>>

\* the scan index reached the end: the subgroup is complete
CloseSubgroup ==
    /\ pc = "scan"
    /\ ~(p_index < Len(p_members))
    /\ subgroups' = Append(subgroups, subgroup_temp)
    /\ pc' = "pool"
    /\ UNCHANGED <<dz, connection_lists, deci_dist, deci_dist_t, deci_domi,
                   subsizes, n_pool, subgroup_temp, p_members, p_index,
                   current_domi, host, dist_diff_max, sim_pause, sim_exit,
                   iter_count>>

\* ---------------------------------------------------- 3. subgroup sizes
\* the nodes of the first n subgroups, in the order the size loop visits them
RECURSIVE Visited(_, _)
Visited(subs, n) == IF n = 0 THEN << >> ELSE Visited(subs, n - 1) \o subs[n]

\* subsizes after the size loop over the first subgroup only
SizesOfFirst(sizes, subs, n) ==
    [i \in Nodes |-> IF n >= 1 /\ InList(i, subs[1]) THEN Len(subs[1])
                                                      ELSE sizes[i]]
\* subsizes after the size loop over the first n subgroups
RECURSIVE SizesAfter(_, _, _)
SizesAfter(sizes, subs, n) ==
    IF n = 0 THEN sizes
    ELSE LET before == SizesAfter(sizes, subs, n - 1)
         IN  [i \in Nodes |-> IF InList(i, subs[n]) THEN Len(subs[n]) ELSE before[i]]

\* traverse_list.remove(i) fails when i was removed before
TraverseRemoveFails(subs) ==
    LET visited == Visited(subs, Len(subs))
    IN  \E a, b \in 1 .. Len(visited) : a < b /\ visited[a] = visited[b]

\* traverse_list is not empty after the loop
TraverseLeftOver(subs) ==
    \E i \in Nodes : ~InList(i, Visited(subs, Len(subs)))

UpdateSubsizes ==
    /\ pc = "pool"
    /\ Len(n_pool) = 0
    /\ IF TraverseRemoveFails(subgroups)
       THEN /\ pc' = "error_traverse_remove"
            /\ UNCHANGED <<subsizes, deci_dist_t, host>>
       ELSE /\ subsizes' = SizesAfter(subsizes, subgroups, Len(subgroups))
            /\ IF TraverseLeftOver(subgroups)
               THEN /\ pc' = "exit_check_error"
                    /\ UNCHANGED <<deci_dist_t, host>>
               ELSE /\ deci_dist_t' = deci_dist
                    /\ host' = 0
                    /\ pc' = "node"
    /\ UNCHANGED <<dz, connection_lists, deci_dist, deci_domi, subgroups, n_pool,
                   subgroup_temp, p_members, p_index, current_domi,
                   dist_diff_max, sim_pause, sim_exit, iter_count>>

\* ------------------------------------- the decision distribution evolution
\* Overflow threshold for the distribution difference (0.3)
dist_diff_thres == Rat(3, 10)

\* every node taken as converged
ConvergedAlways(i) == TRUE
\* whether all neighbours of node i share its dominant decision
ConvergedWithNeighbour(i) ==
    /\ Len(connection_lists[i]) > 0
    /\ \A k \in 1 .. Len(connection_lists[i]) :
           deci_domi[i] = deci_domi[connection_lists[i][k]]
Converged(i) ==
    \A k \in 1 .. Len(connection_lists[i]) :
        deci_domi[i] = deci_domi[connection_lists[i][k]]

\* start + weights[list[1]] * dist[list[1]] + ... + weights[list[n]] * dist[list[n]]
RECURSIVE Accumulate(_, _, _, _, _)
Accumulate(start, dist, weights, list, n) ==
    IF n = 0 THEN start
    ELSE RowAdd(Accumulate(start, dist, weights, list, n - 1),
                RowScale(dist[list[n]], Rat(weights[list[n]], 1)))

\* step 1: equally weighted average of the host and all its neighbours
EqualWeights == [j \in Nodes |-> 1]

AveragedNeighbours(i) ==
    Normalize(Accumulate([k \in Decisions |-> Zero], deci_dist_t, EqualWeights,
                         connection_lists[i], Len(connection_lists[i])))
\* the host's row plus the rows of its neighbours, before the normalization
EqualSum(i) ==
    Accumulate(RowScale(deci_dist_t[i], One), deci_dist_t, EqualWeights,
               connection_lists[i], Len(connection_lists[i]))

AveragedRow(i) == Normalize(EqualSum(i))

EqualAverage ==
    /\ pc = "node"
    /\ host < net_size
    /\ Converged(host)
    /\ deci_dist' = [deci_dist EXCEPT ![host] = AveragedRow(host)]
    /\ pc' = "diff"
    /\ UNCHANGED <<dz, connection_lists, deci_dist_t, deci_domi, subgroups,
                   subsizes, n_pool, subgroup_temp, p_members, p_index,
                   current_domi, host, dist_diff_max, sim_pause, sim_exit,
                   iter_count>>

\* step 2: the distribution differences of all pairs of the host's block
CombPool(i) == <<i>> \o connection_lists[i]

DistDiffs(dist, comb_pool) ==
    {DistDiff(dist[comb_pool[j]], dist[comb_pool[k]]) :
        <<j, k>> \in {p \in (1 .. Len(comb_pool)) \X (1 .. Len(comb_pool)) :
                          p[1] < p[2]}}

\* max() of a non-empty collection of differences
MaxOf(diffs) == CHOOSE m \in diffs : \A x \in diffs : RLeq(x, m)

\* the differences are taken on deci_dist, which already holds this round's
\* result for the host and for every node before it
MaxDifference ==
    /\ pc = "diff"
    /\ LET dist_diff == DistDiffs(deci_dist, CombPool(host))
       IN  IF dist_diff = {}
           THEN /\ pc' = "error_max_empty"
                /\ UNCHANGED dist_diff_max
           ELSE /\ dist_diff_max' = MaxOf(dist_diff)
                /\ pc' = "mult"
    /\ UNCHANGED <<dz, connection_lists, deci_dist, deci_dist_t, deci_domi,
                   subgroups, subsizes, n_pool, subgroup_temp, p_members,
                   p_index, current_domi, host, sim_pause, sim_exit,
                   iter_count>>

\* np.power(ratio, 0.3) for a ratio in [0, 1), tabulated: 0 at 0, and on
\* each interval of the ratio a value above the ratio and below 1
Power03(ratio) ==
    IF ratio.n = 0 THEN Zero
    ELSE IF RLeq(ratio, Rat(1, 100)) THEN Rat(1, 4)
    ELSE IF RLeq(ratio, Rat(1, 10)) THEN Rat(1, 2)
    ELSE IF RLeq(ratio, Rat(2, 5)) THEN Rat(3, 4)
    ELSE IF RLeq(ratio, Rat(4, 5)) THEN Rat(15, 16)
    ELSE Rat(31, 32)

\* the small end put at the top of the multipliers
SmallEndAbove(diff_max) == Rat(2, deci_num)
SmallEnd(diff_max) ==
    RMul(Rat(1, deci_num), Power03(RDiv(diff_max, dist_diff_thres)))

LargeEnd(diff_max) == RSub(Rat(2, deci_num), SmallEnd(diff_max))

\* the bubble sort, ascending, of dist_temp with its sort_index
SwapAt(f, k) == [f EXCEPT ![k] = f[k + 1], ![k + 1] = f[k]]

RECURSIVE InnerLoop(_, _, _)
InnerLoop(st, k, limit) ==
    IF k >= limit THEN st
    ELSE InnerLoop(IF RLess(st.dist_temp[k + 1], st.dist_temp[k])
                   THEN [dist_temp |-> SwapAt(st.dist_temp, k),
                         sort_index |-> SwapAt(st.sort_index, k)]
                   ELSE st,
                   k + 1, limit)

RECURSIVE OuterLoop(_, _)
OuterLoop(st, j) ==
    IF j >= deci_num - 1 THEN st
    ELSE OuterLoop(InnerLoop(st, 0, deci_num - 1 - j), j + 1)

\* the sort index left as range(deci_num)
SortIndexUnsorted(row) == [k \in Decisions |-> k]
SortIndex(row) ==
    OuterLoop([dist_temp |-> row, sort_index |-> [k \in Decisions |-> k]], 0).sort_index

\* the linear multiplier without its slope
MultiplierSmallEnd(j, small_end, large_end) == small_end
\* the linear multiplier of the entry at position j of the sorted order
MultiplierReversed(j, small_end, large_end) ==
    RSub(large_end, RMul(Rat(j, deci_num - 1), RSub(large_end, small_end)))
Multiplier(j, small_end, large_end) ==
    RAdd(small_end, RMul(Rat(j, deci_num - 1), RSub(large_end, small_end)))

\* the row after the linear multiplier, before the normalization
Multiplied(row, diff_max) ==
    LET small_end == SmallEnd(diff_max)
        large_end == LargeEnd(diff_max)
        sort_index == SortIndex(row)
        position(k) == CHOOSE j \in Decisions : sort_index[j] = k
    IN  [k \in Decisions |->
            RMul(row[k], Multiplier(position(k), small_end, large_end))]

\* the row after the linear multiplier and the normalization
Sharpened(row, diff_max) == Normalize(Multiplied(row, diff_max))

LinearMultiplier ==
    /\ pc = "mult"
    /\ RLess(dist_diff_max, dist_diff_thres)
    /\ IF deci_num - 1 = 0
       THEN /\ pc' = "error_zero_division"
            /\ UNCHANGED <<deci_dist, host>>
       ELSE /\ deci_dist' = [deci_dist EXCEPT
                                ![host] = Sharpened(deci_dist[host], dist_diff_max)]
            /\ host' = host + 1
            /\ pc' = "node"
    /\ UNCHANGED <<dz, connection_lists, deci_dist_t, deci_domi, subgroups,
                   subsizes, n_pool, subgroup_temp, p_members, p_index,
                   current_domi, dist_diff_max, sim_pause, sim_exit,
                   iter_count>>

\* the distribution difference is large: no linear multiplier
NoMultiplier ==
    /\ pc = "mult"
    /\ ~RLess(dist_diff_max, dist_diff_thres)
    /\ host' = host + 1
    /\ pc' = "node"
    /\ UNCHANGED <<dz, connection_lists, deci_dist, deci_dist_t, deci_domi,
                   subgroups, subsizes, n_pool, subgroup_temp, p_members,
                   p_index, current_domi, dist_diff_max, sim_pause, sim_exit,
                   iter_count>>

\* at least one neighbour differs: average weighted by the subgroup sizes
UnweightedRow(i) == AveragedRow(i)
\* the rows of the host and its neighbours, each times its subgroup size,
\* summed, before the normalization
WeightedSum(i) ==
    Accumulate(RowScale(deci_dist_t[i], Rat(subsizes[i], 1)),
               deci_dist_t, subsizes,
               connection_lists[i], Len(connection_lists[i]))

WeightedRow(i) == Normalize(WeightedSum(i))

WeightedAverage ==
    /\ pc = "node"
    /\ host < net_size
    /\ ~Converged(host)
    /\ deci_dist' = [deci_dist EXCEPT ![host] = WeightedRow(host)]
    /\ host' = host + 1
    /\ UNCHANGED <<dz, connection_lists, deci_dist_t, deci_domi, subgroups,
                   subsizes, n_pool, subgroup_temp, p_members, p_index,
                   current_domi, dist_diff_max, sim_pause, sim_exit,
                   iter_count, pc>>

\* all nodes are updated: draw the unipolarity bars, count the iteration and
\* go back to the loop test
FinishIteration ==
    /\ pc = "node"
    /\ host = net_size
    /\ dz' = [i \in Nodes |-> deci_dist[i][deci_domi[i]]]
    /\ iter_count' = iter_count + 1
    /\ pc' = IF sim_exit THEN "done" ELSE "poll"
    /\ UNCHANGED <<connection_lists, deci_dist, deci_dist_t, deci_domi,
                   subgroups, subsizes, n_pool, subgroup_temp, p_members,
                   p_index, current_domi, host, dist_diff_max, sim_pause,
                   sim_exit>>

\* ------------------------------------- the initial normalization alone
\* values np.random.rand may return for one entry
RawValues == {Zero, Rat(1, 2)}

\* the state after deci_dist = np.random.rand(net_size, deci_num)
InitRandom ==
    /\ connection_lists \in Topologies
    /\ deci_dist \in [Nodes -> [Decisions -> RawValues]]
    /\ deci_dist_t = deci_dist
    /\ deci_domi = [i \in Nodes |-> 0]
    /\ subgroups = << >>
    /\ subsizes = [i \in Nodes |-> 0]
    /\ n_pool = << >>
    /\ subgroup_temp = << >>
    /\ p_members = << >>
    /\ p_index = 0
    /\ current_domi = 0
    /\ host = 0
    /\ dist_diff_max = Zero
    /\ sim_pause = TRUE
    /\ sim_exit = FALSE
    /\ iter_count = 0
    /\ dz = [i \in Nodes |-> Zero]
    /\ pc = "random"

\* normalize the random numbers such that the sum is 1.0, and take the
\* dominant decisions; the program goes on to the simulation cycle
NormalizeRandom ==
    /\ pc = "random"
    /\ deci_dist' = [i \in Nodes |-> Normalize(deci_dist[i])]
    /\ deci_dist_t' = deci_dist'
    /\ deci_domi' = DominantDecisions(deci_dist')
    /\ pc' = "poll"
    /\ UNCHANGED <<connection_lists, subgroups, subsizes, n_pool,
                   subgroup_temp, p_members, p_index, current_domi, host,
                   dist_diff_max, sim_pause, sim_exit, iter_count, dz>>

SpecRandom == InitRandom /\ [][NormalizeRandom]_vars

Next ==
    \/ \E events \in EventLists(MaxEvents) : PollEvents(events)
    \/ UpdateDomi
    \/ StartSubgroup
    \/ AcceptMember
    \/ SkipBoundary
    \/ CloseSubgroup
    \/ UpdateSubsizes
    \/ EqualAverage
    \/ MaxDifference
    \/ LinearMultiplier
    \/ NoMultiplier
    \/ WeightedAverage
    \/ FinishIteration

Spec == Init /\ [][Next]_vars

\* the subgroup search is a pair of nested loops of a sequential program:
\* while one of its steps is possible the program takes it
SubgroupSearch == StartSubgroup \/ AcceptMember \/ SkipBoundary \/ CloseSubgroup

SpecSearch == Spec /\ WF_vars(SubgroupSearch)

\* ================================================================ claims
ElementsOf(list) == {list[k] : k \in 1 .. Len(list)}

\* the subgroup search of the current round has produced its list
SubgroupsComplete ==
    \/ pc = "pool" /\ Len(n_pool) = 0
    \/ pc \in {"node", "diff", "mult"}

\* the positions <<s, k>> of the subgroups list that hold node i
PlacesOf(i) ==
    {p \in (1 .. Len(subgroups)) \X (1 .. net_size) :
        p[2] <= Len(subgroups[p[1]]) /\ subgroups[p[1]][p[2]] = i}

\* C1: once the subgroup search of a round is complete, no subgroup is
\* empty and every node of 0..net_size-1 is held at exactly one position of
\* exactly one subgroup (the subgroups are disjoint and cover all nodes).
C1_Partition ==
    SubgroupsComplete =>
        /\ \A s \in 1 .. Len(subgroups) :
              /\ Len(subgroups[s]) > 0
              /\ ElementsOf(subgroups[s]) \subseteq Nodes
        /\ \A i \in Nodes : Cardinality(PlacesOf(i)) = 1

\* a completed search that found a subgroup of several nodes beside another
C1_Witness ==
    /\ pc = "pool"
    /\ Len(n_pool) = 0
    /\ Len(subgroups) >= 2
    /\ \E s \in 1 .. Len(subgroups) : Len(subgroups[s]) >= 2

\* reference: the nodes reachable from a set over edges whose two ends
\* hold the same dominant decision (breadth-first closure)
RECURSIVE SameDecisionClosure(_)
SameDecisionClosure(S) ==
    LET next == S \cup {j \in Nodes : \E i \in S :
                           /\ InList(j, connection_lists[i])
                           /\ deci_domi[j] = deci_domi[i]}
    IN  IF next = S THEN S ELSE SameDecisionClosure(next)

\* C2: once the subgroup search is complete, each subgroup is exactly the
\* set of nodes connected to any of its members by a path of adjacent nodes
\* with the same dominant decision (a maximal same-decision component).
C2_Components ==
    SubgroupsComplete =>
        \A s \in 1 .. Len(subgroups) : \A i \in ElementsOf(subgroups[s]) :
            ElementsOf(subgroups[s]) = SameDecisionClosure({i})

\* a completed search on a connected network that had to split the nodes:
\* a subgroup of several nodes borders a node of another decision
C2_Witness ==
    /\ pc = "pool"
    /\ Len(n_pool) = 0
    /\ \E s \in 1 .. Len(subgroups) :
          /\ Len(subgroups[s]) >= 2
          /\ \E i \in ElementsOf(subgroups[s]) : \E j \in Nodes :
                /\ InList(j, connection_lists[i])
                /\ deci_domi[j] # deci_domi[i]

\* the evolution loop of the current round has updated every node
EvolutionComplete == pc = "node" /\ host = net_size

\* the row the evolution step of node i stores when the buffer it works on
\* holds dist (snapshot deci_dist_t, dominant decisions and subgroup sizes
\* of the current round)
NodeResult(dist, i) ==
    IF Converged(i)
    THEN LET averaged == AveragedRow(i)
             dist_diff == DistDiffs([dist EXCEPT ![i] = averaged], CombPool(i))
         IN  IF dist_diff # {} /\ RLess(MaxOf(dist_diff), dist_diff_thres)
             THEN Sharpened(averaged, MaxOf(dist_diff))
             ELSE averaged
    ELSE WeightedRow(i)

\* the buffer after the evolution steps of order[1], ..., order[n]
RECURSIVE EvolveInOrder(_, _, _)
EvolveInOrder(dist, order, n) ==
    IF n = 0 THEN dist
    ELSE LET before == EvolveInOrder(dist, order, n - 1)
         IN  [before EXCEPT ![order[n]] = NodeResult(before, order[n])]

\* all processing orders of the nodes
Orders ==
    {order \in [1 .. net_size -> Nodes] :
        \A a, b \in 1 .. net_size : a # b => order[a] # order[b]}

\* C3: at the end of the evolution loop the distributions equal those that
\* processing the nodes from the round's snapshot in any order would give.
C3_OrderIndependent ==
    EvolutionComplete =>
        \A order \in Orders :
            EvolveInOrder(deci_dist_t, order, net_size) = deci_dist

\* the program's own order, ascending, gives the program's result
C3_AscendingOrder ==
    EvolutionComplete =>
        EvolveInOrder(deci_dist_t, [k \in 1 .. net_size |-> k - 1], net_size)
            = deci_dist

\* C4: in every state every node's distribution has one entry per decision
\* and its entries sum to 1.
C4_Normalized ==
    \A i \in Nodes :
        /\ DOMAIN deci_dist[i] = Decisions
        /\ RowSum(deci_dist[i]) = One

\* a completed evolution that took the divergent branch for one node and
\* the converged branch with the linear multiplier for another
C4_Witness ==
    /\ EvolutionComplete
    /\ \E i, j \in Nodes :
          /\ ~Converged(i)
          /\ Converged(j)
          /\ deci_dist[j] # AveragedRow(j)

\* the host and its neighbours
Block(i) == {i} \cup ElementsOf(connection_lists[i])

\* the largest difference between two snapshot distributions of a block
SnapshotDiffMax(i) == MaxOf(DistDiffs(deci_dist_t, CombPool(i)))

\* C6: where the program decides on the linear multiplier for a converged
\* host, its test passes exactly if the largest pairwise difference of the
\* snapshot distributions of the host's block is below the threshold.
C6_SnapshotThreshold ==
    pc = "mult" =>
        (RLess(dist_diff_max, dist_diff_thres)
            <=> RLess(SnapshotDiffMax(host), dist_diff_thres))

\* every entry but the dominant one is strictly smaller than it
UniqueLargest(row) ==
    \A k \in Decisions : k # ArgMax(row) => RLess(row[k], row[ArgMax(row)])

\* a step that applies the linear multiplier to the host
MultiplierStep ==
    /\ pc = "mult"
    /\ pc' = "node"
    /\ RLess(dist_diff_max, dist_diff_thres)

\* C7 as stated: every application of the linear multiplier strictly raises
\* the probability of the host's dominant decision before the step.
C7_StrictIncrease ==
    [][MultiplierStep =>
          RLess(deci_dist[host][ArgMax(deci_dist[host])],
                deci_dist'[host][ArgMax(deci_dist[host])])]_vars

\* C7 amended: an application of the linear multiplier to a distribution
\* whose largest entry is unique and below 1 strictly raises that entry.
C7_StrictIncreaseUnique ==
    [][(/\ MultiplierStep
        /\ UniqueLargest(deci_dist[host])
        /\ RLess(deci_dist[host][ArgMax(deci_dist[host])], One)) =>
          RLess(deci_dist[host][ArgMax(deci_dist[host])],
                deci_dist'[host][ArgMax(deci_dist[host])])]_vars

\* the linear multiplier has just been applied to the node before the host,
\* whose averaged distribution had a unique largest entry below 1
C7_Witness ==
    /\ pc = "node"
    /\ host > 0
    /\ Converged(host - 1)
    /\ deci_dist[host - 1] # AveragedRow(host - 1)
    /\ UniqueLargest(AveragedRow(host - 1))
    /\ RLess(AveragedRow(host - 1)[ArgMax(AveragedRow(host - 1))], One)

\* reference: the size of the subgroup of the current round that holds i
SubgroupSize(i) ==
    Len(subgroups[CHOOSE s \in 1 .. Len(subgroups) : InList(i, subgroups[s])])

\* reference: the sum over the nodes j of S of weight[j] * deci_dist_t[j][k]
RECURSIVE SnapshotSum(_, _, _)
SnapshotSum(S, k, weight) ==
    IF S = {} THEN Zero
    ELSE LET j == CHOOSE x \in S : TRUE
         IN  RAdd(RMul(Rat(weight[j], 1), deci_dist_t[j][k]),
                  SnapshotSum(S \ {j}, k, weight))

\* reference: the subgroup-size weighted sum over the block, divided by the
\* sum of its entries
WeightedReference(i) ==
    LET weight == [j \in Nodes |-> SubgroupSize(j)]
        total == RowSum([k \in Decisions |-> SnapshotSum(Block(i), k, weight)])
    IN  [k \in Decisions |-> RDiv(SnapshotSum(Block(i), k, weight), total)]

\* C8: every divergent node the evolution loop has passed holds the sum of
\* the snapshot distributions of itself and its neighbours, each weighted by
\* the size of its subgroup in this round, normalized; no multiplier on top.
C8_Weighted ==
    pc \in {"node", "diff", "mult"} =>
        \A i \in Nodes :
            (i < host /\ ~Converged(i)) => deci_dist[i] = WeightedReference(i)

\* a divergent node was updated with a neighbour of another subgroup size
C8_Witness ==
    /\ pc = "node"
    /\ \E i \in Nodes :
          /\ i < host
          /\ ~Converged(i)
          /\ \E j \in Block(i) : SubgroupSize(j) # SubgroupSize(i)

\* reference: the arithmetic mean of the snapshot distributions of a block
MeanReference(i) ==
    [k \in Decisions |->
        RDiv(SnapshotSum(Block(i), k, [j \in Nodes |-> 1]),
             Rat(Cardinality(Block(i)), 1))]

\* C9: right after step 1 for a converged host, the host holds the
\* arithmetic mean of the snapshot distributions of itself and its
\* neighbours.
C9_EqualMean ==
    pc = "diff" => deci_dist[host] = MeanReference(host)

\* the path 0-1-2 with rows [0.9,0.1], [0.5,0.5], [0.5,0.5]: one subgroup of
\* all three nodes, and node 1 holds the mean of the three rows after step 1
C9_Witness ==
    /\ pc = "diff"
    /\ host = 1
    /\ connection_lists[0] = <<1>>
    /\ connection_lists[1] = <<0, 2>>
    /\ deci_dist_t[0] = Peak(0)
    /\ deci_dist_t[1] = Uniform
    /\ deci_dist_t[2] = Uniform
    /\ \A i \in Nodes : deci_domi[i] = 0
    /\ subgroups = <<Range(3)>>
    /\ deci_dist[1][0] = Rat(19, 30)
    /\ deci_dist[1][1] = Rat(11, 30)

\* C10: a host without neighbours always takes the converged branch, and
\* step 1 leaves it with its own snapshot distribution.
C10_Isolated ==
    [][(/\ pc = "node"
        /\ host < net_size
        /\ Len(connection_lists[host]) = 0) =>
          (/\ pc' = "diff"
           /\ deci_dist'[host] = deci_dist_t[host])]_vars

\* step 1 has run for a host without neighbours, after other nodes
C10_Witness ==
    /\ pc = "diff"
    /\ host > 0
    /\ Len(connection_lists[host]) = 0
    /\ deci_dist[host] = deci_dist_t[host]

\* the positions at which the program stops with an uncaught exception or
\* with its own consistency check
AbortPositions ==
    {"error_pool_remove", "error_traverse_remove", "exit_check_error",
     "error_max_empty", "error_zero_division"}

\* C11: a round never aborts: from a valid topology and normalized
\* distributions no step of a round stops the program, whatever the
\* topology (nodes without neighbours included).
C11_RoundCompletes == pc \notin AbortPositions

\* reference: the subgroup search as a function of the dominant decisions.
\* SearchOne scans the potential members of one subgroup, SearchAll starts
\* a subgroup with the first node of the pool until the pool is empty.
RECURSIVE SearchOne(_, _, _, _, _)
SearchOne(subgroup, members, index, pool, domi) ==
    IF index >= Len(members) THEN [subgroup |-> subgroup, pool |-> pool]
    ELSE LET member == members[index + 1]
         IN  IF domi[member] = domi[subgroup[1]]
             THEN LET larger == Append(subgroup, member)
                      rest == Remove(pool, member)
                  IN  SearchOne(larger,
                                AddPotential(Remove(members, member),
                                             connection_lists[member],
                                             Len(connection_lists[member]),
                                             larger, rest),
                                index, rest, domi)
             ELSE SearchOne(subgroup, members, index + 1, pool, domi)

RECURSIVE SearchAll(_, _, _)
SearchAll(found, pool, domi) ==
    IF pool = << >> THEN found
    ELSE LET one == SearchOne(<<pool[1]>>, connection_lists[pool[1]], 0,
                              Tail(pool), domi)
         IN  SearchAll(Append(found, one.subgroup), one.pool, domi)

\* C12: when the evolution loop of a round has finished, the dominant
\* decisions, the subgroups, the subgroup sizes and the distributions are
\* functions of the topology and of the distributions the round started
\* with (deci_dist_t), and of nothing else: not of the events, the pauses,
\* the iteration count or values left from earlier rounds.  Two runs that
\* start equal are therefore equal after every round.
C12_Deterministic ==
    EvolutionComplete =>
        LET domi == [i \in Nodes |-> ArgMax(deci_dist_t[i])]
            found == SearchAll(<< >>, Range(net_size), domi)
        IN  /\ deci_domi = domi
            /\ subgroups = found
            /\ subsizes = [i \in Nodes |->
                              Len(found[CHOOSE s \in 1 .. Len(found) :
                                            InList(i, found[s])])]
            /\ deci_dist = EvolveInOrder(deci_dist_t,
                                         [k \in 1 .. net_size |-> k - 1], net_size)

\* the second round has finished, after a first round that changed the
\* dominant decision of a node and with it the subgroups
C12_Witness ==
    /\ EvolutionComplete
    /\ iter_count = 1
    /\ Len(subgroups) >= 2
    /\ \E i \in Nodes : subsizes[i] >= 2
    /\ \E i \in Nodes : ArgMax(deci_dist[i]) # deci_domi[i]

\* the lists of connected nodes are symmetric, hold nodes only, no node is
\* connected to itself and no list holds a node twice
TopologyWellFormed ==
    \A i \in Nodes :
        /\ ElementsOf(connection_lists[i]) \subseteq Nodes
        /\ ~InList(i, connection_lists[i])
        /\ \A a, b \in 1 .. Len(connection_lists[i]) :
               a # b => connection_lists[i][a] # connection_lists[i][b]
        /\ \A j \in Nodes :
               InList(j, connection_lists[i]) <=> InList(i, connection_lists[j])

\* C13: in every reachable state the connection lists are symmetric, free
\* of self-loops and of duplicates, and no step of the program changes
\* them (the subgroup search removes from and appends to p_members only).
C13_StaticTopology ==
    /\ []TopologyWellFormed
    /\ [][connection_lists' = connection_lists]_vars

\* a subgroup search that has removed an accepted member from p_members and
\* appended new potential members, on a network with connections
C13_Witness ==
    /\ pc = "scan"
    /\ Len(subgroup_temp) >= 2
    /\ p_members # connection_lists[subgroup_temp[1]]
    /\ \E i \in Nodes : Len(connection_lists[i]) >= 2

\* C14: the consistency check of the size step never stops the program
\* (no node is left in traverse_list, none is removed from it twice), and
\* from the size step to the end of the round subsizes[i] is the number of
\* nodes of the subgroup that holds node i in this round.
C14_SubgroupSizes ==
    /\ pc \notin {"error_traverse_remove", "exit_check_error"}
    /\ pc \in {"node", "diff", "mult"} =>
           \A i \in Nodes :
               subsizes[i] = Cardinality({j \in Nodes :
                                 \E s \in 1 .. Len(subgroups) :
                                     InList(i, subgroups[s]) /\ InList(j, subgroups[s])})

\* the size step of the second round has run, with subgroups of different
\* sizes
C14_Witness ==
    /\ pc = "node"
    /\ host = 0
    /\ iter_count = 1
    /\ \E i, j \in Nodes : subsizes[i] # subsizes[j]

\* C15: no distribution the program goes on with holds nan: a normalizing
\* sum of zero stops the program with an error instead.
C15_NoSilentNaN ==
    pc # "random" =>
        \A i \in Nodes : \A k \in Decisions : deci_dist[i][k] # NaN

\* C16: after each round the value shown for node i is the entry of its
\* distribution after the round at that distribution's dominant decision,
\* that is, the largest entry of the current distribution.
C16_Confidence ==
    (iter_count >= 1 /\ pc \in {"poll", "done"}) =>
        \A i \in Nodes : dz[i] = deci_dist[i][ArgMax(deci_dist[i])]

\* the scan has passed the first p_index potential members: each of them
\* holds another decision than the subgroup and is not a member of it
PassedAreBoundary ==
    pc = "scan" =>
        \A k \in 1 .. p_index :
            /\ k <= Len(p_members)
            /\ deci_domi[p_members[k]] # current_domi
            /\ ~InList(p_members[k], subgroup_temp)

\* one step of the scan of a subgroup: the scan index never goes back, the
\* potential members it has passed stay where they are, and a boundary
\* node under the index is left in the list as the index moves past it
ScanStepKeepsPassed ==
    (pc = "scan" /\ pc' = "scan") =>
        /\ p_index' >= p_index
        /\ SubSeq(p_members', 1, p_index) = SubSeq(p_members, 1, p_index)
        /\ (p_index < Len(p_members) /\ ~SharesDecision(p_members[p_index + 1])) =>
               (p_index' = p_index + 1 /\ p_members' = p_members
                    /\ subgroup_temp' = subgroup_temp)

\* C17: the subgroup search terminates: a started scan ends, and ends only
\* with the scan index at the end of the potential members; starting a
\* subgroup shrinks the pool, and the pool runs empty; a potential member
\* of another decision is passed once (no potential member is listed
\* twice, the index never goes back), stays listed, and is never a member.
C17_SearchTerminates ==
    /\ (pc = "scan") ~> (pc = "pool")
    /\ (pc = "pool") ~> (pc = "pool" /\ Len(n_pool) = 0)
    /\ [][(pc = "scan" /\ pc' = "pool") => p_index = Len(p_members)]_vars
    /\ [][(pc = "pool" /\ pc' = "scan") => Len(n_pool') < Len(n_pool)]_vars
    /\ [][ScanStepKeepsPassed]_vars
    /\ []PassedAreBoundary
    /\ [](pc = "scan" => \A a, b \in 1 .. Len(p_members) :
                              a # b => p_members[a] # p_members[b])

\* a scan that has passed a boundary node and accepted a member after it
C17_Witness ==
    /\ pc = "scan"
    /\ p_index >= 1
    /\ Len(subgroup_temp) >= 2
    /\ p_index = Len(p_members)

\* nodes i and j are in one subgroup of the current round
SameSubgroup(i, j) ==
    \E s \in 1 .. Len(subgroups) :
        InList(i, subgroups[s]) /\ InList(j, subgroups[s])

\* C18: whenever the evolution loop takes the converged branch for a node,
\* every neighbour of the node is in the node's subgroup and the node's
\* subgroup size is at least 1 + its number of neighbours; whenever it
\* takes the divergent branch, some neighbour is in another subgroup.
C18_ClassificationConsistent ==
    [][/\ (pc = "node" /\ pc' = "diff") =>
              /\ \A k \in 1 .. Len(connection_lists[host]) :
                     SameSubgroup(host, connection_lists[host][k])
              /\ subsizes[host] >= 1 + Len(connection_lists[host])
       /\ (pc = "node" /\ host' = host + 1) =>
              \E k \in 1 .. Len(connection_lists[host]) :
                  ~SameSubgroup(host, connection_lists[host][k])]_vars

\* a node with neighbours has taken the converged branch in a round in
\* which an earlier node took the divergent branch
C18_Witness ==
    /\ pc = "diff"
    /\ Len(connection_lists[host]) >= 1
    /\ \E j \in Nodes : j < host /\ ~Converged(j)

\* all nodes hold the same dominant decision in this round
Agreement == \A i, j \in Nodes : deci_domi[i] = deci_domi[j]

\* C19: a round that started with all nodes holding the same dominant
\* decision ends with all nodes holding one common dominant decision (the
\* next round then starts in agreement again, and so on).
C19_AgreementStable ==
    (EvolutionComplete /\ Agreement) =>
        \A i, j \in Nodes : ArgMax(deci_dist[i]) = ArgMax(deci_dist[j])

\* C19 for distributions without a tie for the largest entry: a round that
\* started with all nodes holding the same dominant decision, each with
\* that decision as the only largest entry of its distribution, ends with
\* every node holding that same decision, again as the only largest entry.
C19_AgreementStableUnique ==
    (/\ EvolutionComplete
     /\ Agreement
     /\ \A i \in Nodes : UniqueLargest(deci_dist_t[i])) =>
        \A i \in Nodes :
            /\ ArgMax(deci_dist[i]) = deci_domi[i]
            /\ UniqueLargest(deci_dist[i])

\* the second round in a row that started in agreement without ties has
\* finished, and has sharpened the distribution of a node
C19_Witness ==
    /\ EvolutionComplete
    /\ iter_count = 1
    /\ Agreement
    /\ \A i \in Nodes : UniqueLargest(deci_dist_t[i])
    /\ \E i \in Nodes : Converged(i) /\ deci_dist[i] # AveragedRow(i)

\* reference: the ascending rank of entry k of a row, entries of equal
\* value ranked by their index
AscendingRank(row, k) ==
    Cardinality({j \in Decisions :
                    RLess(row[j], row[k]) \/ (row[j] = row[k] /\ j < k)})

\* reference: smallEnd + (j/(D-1)) * (largeEnd - smallEnd)
RankMultiplier(j) ==
    RAdd(SmallEnd(dist_diff_max),
         RMul(Rat(j, deci_num - 1),
              RSub(LargeEnd(dist_diff_max), SmallEnd(dist_diff_max))))

\* C20: at every application of the linear multiplier,
\* 0 <= smallEnd < 1/D < largeEnd <= 2/D, the multiplier of rank j is
\* strictly increasing in j, the host's new distribution is its old one
\* with each entry multiplied by the multiplier of its ascending rank and
\* divided by the sum, and two entries that were unequal keep their order.
C20_RankPreserving ==
    [][MultiplierStep =>
          LET row == deci_dist[host]
              scaled == [k \in Decisions |->
                            RMul(row[k], RankMultiplier(AscendingRank(row, k)))]
          IN  /\ RLeq(Zero, SmallEnd(dist_diff_max))
              /\ RLess(SmallEnd(dist_diff_max), Rat(1, deci_num))
              /\ RLess(Rat(1, deci_num), LargeEnd(dist_diff_max))
              /\ RLeq(LargeEnd(dist_diff_max), Rat(2, deci_num))
              /\ \A j \in 1 .. (deci_num - 1) :
                     RLess(RankMultiplier(j - 1), RankMultiplier(j))
              /\ deci_dist'[host] =
                     [k \in Decisions |-> RDiv(scaled[k], RowSum(scaled))]
              /\ \A a, b \in Decisions :
                     RLess(row[a], row[b]) =>
                         RLess(deci_dist'[host][a], deci_dist'[host][b])]_vars

\* the linear multiplier has just been applied, with a small end above 0,
\* to a distribution of unequal entries
C20_Witness ==
    /\ pc = "node"
    /\ host > 0
    /\ Converged(host - 1)
    /\ deci_dist[host - 1] # AveragedRow(host - 1)
    /\ RLess(Zero, dist_diff_max)
    /\ RLess(dist_diff_max, dist_diff_thres)
    /\ \E a, b \in Decisions :
           RLess(AveragedRow(host - 1)[a], AveragedRow(host - 1)[b])

\* C21: every entry of every distribution is a number not below 0, and
\* every sum a step of the evolution divides by is above 0: the sum of the
\* equally weighted rows, the sum of the rows weighted by subgroup sizes,
\* and the sum after the linear multiplier (also with a small end of 0).
C21_PositiveDivisors ==
    /\ [](\A i \in Nodes : \A k \in Decisions :
              deci_dist[i][k] # NaN /\ RLeq(Zero, deci_dist[i][k]))
    /\ [][/\ (pc = "node" /\ pc' = "diff") =>
                 RLess(Zero, RowSum(EqualSum(host)))
          /\ (pc = "node" /\ host' = host + 1) =>
                 RLess(Zero, RowSum(WeightedSum(host)))
          /\ MultiplierStep =>
                 RLess(Zero, RowSum(Multiplied(deci_dist[host], dist_diff_max)))]_vars

\* the linear multiplier has just been applied with a small end of 0 and
\* has brought an entry to 0, in a round that also took the divergent
\* branch for a node
C21_Witness ==
    /\ pc = "node"
    /\ host > 0
    /\ Converged(host - 1)
    /\ dist_diff_max = Zero
    /\ deci_dist[host - 1] # AveragedRow(host - 1)
    /\ \E k \in Decisions : deci_dist[host - 1][k] = Zero
    /\ \E j \in Nodes : ~Converged(j)

\* the nodes assigned so far in this round, in the order of assignment
AssignedSoFar ==
    Visited(subgroups, Len(subgroups))
        \o (IF pc = "scan" THEN subgroup_temp ELSE << >>)

\* C22: during a subgroup search every potential member that holds the
\* subgroup's decision is still in the pool, so n_pool.remove never fails;
\* p_members lists no node twice and no member of the subgroup; and no
\* node is assigned twice, to one subgroup or to two.
C22_AcceptedInPool ==
    /\ pc # "error_pool_remove"
    /\ pc = "scan" =>
           /\ \A k \in 1 .. Len(p_members) :
                  /\ SharesDecision(p_members[k]) => InList(p_members[k], n_pool)
                  /\ ~InList(p_members[k], subgroup_temp)
           /\ \A a, b \in 1 .. Len(p_members) :
                  a # b => p_members[a] # p_members[b]
    /\ pc \in {"pool", "scan"} =>
           \A a, b \in 1 .. Len(AssignedSoFar) :
               a # b => AssignedSoFar[a] # AssignedSoFar[b]

\* a search has accepted a member while its potential members, taken
\* unfiltered from the neighbours of its first node, list a node that an
\* earlier subgroup holds
C22_Witness ==
    /\ pc = "scan"
    /\ Len(subgroup_temp) >= 2
    /\ \E k \in 1 .. Len(p_members) :
           /\ ~InList(p_members[k], n_pool)
           /\ InList(p_members[k], connection_lists[subgroup_temp[1]])

\* the number of SPACE key releases in a list of events
RECURSIVE SpaceCount(_)
SpaceCount(events) ==
    IF events = << >> THEN 0
    ELSE (IF Head(events) = "KEYUP_SPACE" THEN 1 ELSE 0) + SpaceCount(Tail(events))

\* the pause flag after a list of events is the flag before, reversed once
\* for each SPACE key release
SpaceToggles ==
    \A events \in EventLists(MaxEvents) : \A pause, exit \in BOOLEAN :
        HandleEvents([pause |-> pause, exit |-> exit], events).pause
            = (IF SpaceCount(events) % 2 = 1 THEN ~pause ELSE pause)

\* C23: the simulation starts paused; a pass of the loop that finds the
\* pause flag set after its events changes no distribution, dominant
\* decision, subgroup, subgroup size or iteration count, and the steps of a
\* round run only with the flag off; each SPACE key release reverses the
\* flag; the iteration count changes only at the end of a round, by one.
C23_PausedNoRound ==
    /\ sim_pause = TRUE
    /\ [][(pc = "poll" /\ sim_pause') =>
              /\ pc' \in {"poll", "done"}
              /\ UNCHANGED <<deci_dist, deci_dist_t, deci_domi, subgroups,
                             subsizes, iter_count, dz>>]_vars
    /\ [](pc \notin {"poll", "done"} => ~sim_pause)
    /\ []SpaceToggles
    /\ [][(pc = "poll" /\ sim_pause # sim_pause') =>
              \E events \in EventLists(MaxEvents) :
                  SpaceCount(events) % 2 = 1]_vars
    /\ [][IF pc = "node" /\ host = net_size
          THEN iter_count' = iter_count + 1
          ELSE iter_count' = iter_count]_vars

\* the simulation has run a round and has been paused again
C23_Witness ==
    /\ pc = "poll"
    /\ sim_pause
    /\ iter_count >= 1
    /\ ~sim_exit

====
